---- MODULE Spec2Model ----
(***************************************************************************)
(* BMAD workflow server (src/src/index.ts): the session state machine of   *)
(* class BmadWorkflowServer, its score/clarification/draft extractors, the *)
(* merge policy and the persistence of session records and artifacts.      *)
(*                                                                         *)
(* Texts are named by identifiers; the tables below give, for each text,   *)
(* the features the extractors' regular expressions and JSON look-ups read. *)
(* Timestamps (created_at, updated_at, last_updated) and the candidate     *)
(* references claude_result_ref / codex_result_ref, which no transition    *)
(* reads, are not part of the modelled record.                             *)
(***************************************************************************)
EXTENDS Integers, Sequences, FiniteSets, TLC

VARIABLES sessions, disk, files, response, call, ops, pure

vars == <<sessions, disk, files, response, call, ops, pure>>

----------------------------------------------------------------------------
(* Bounds of the model *)

\* the number of calls and restarts in one run
MaxOps == 4

\* the number of calls and restarts in one run with two sessions
MaxOpsTwo == 4

\* the length of a question list given to the question merge
MaxQuestions == 2

\* the iteration of a gated stage from which a disciplined caller submits
\* passing candidates only
MaxIterations == 3

----------------------------------------------------------------------------
(* Pipeline (src/src/master-prompt.ts) *)

Stages == <<"po", "architect", "sm", "dev", "review", "qa">>

StageSet == {Stages[i] : i \in 1..Len(Stages)}

IndexOf(stage) == CHOOSE i \in 1..Len(Stages) : Stages[i] = stage

\* a variant that ends the pipeline one stage early
getNextStageShort(currentStage) ==
    IF IndexOf(currentStage) < Len(Stages) - 1
    THEN Stages[IndexOf(currentStage) + 1]
    ELSE "null"

\* "null" when there is no next stage
getNextStage(currentStage) ==
    IF IndexOf(currentStage) < Len(Stages) THEN Stages[IndexOf(currentStage) + 1] ELSE "null"

ArtifactFile(stage) ==
    CASE stage = "po" -> "01-product-requirements.md"
      [] stage = "architect" -> "02-system-architecture.md"
      [] stage = "sm" -> "03-sprint-plan.md"
      [] stage = "dev" -> "code-implementation"
      [] stage = "review" -> "04-dev-reviewed.md"
      [] stage = "qa" -> "05-qa-report.md"

States == {"generating", "clarifying", "refining", "awaiting_confirmation",
           "awaiting_approval", "completed"}

GateScore == 90

----------------------------------------------------------------------------
(* Texts.                                                                  *)
(*   T_lowq  {"prd_draft":"D1","quality_score":75,"gaps":["g1"],           *)
(*            "questions":[{"id":"q1","question":"What is X?"}]}           *)
(*   T_highq {"prd_draft":"D1","quality_score":95,                         *)
(*            "questions":[{"question":"what is x?"}]}                     *)
(*   T_high  {"prd_updated":"D2","quality_score":92}                       *)
(*   T_weak  {"prd_draft":"D1","quality_score":50}                         *)
(*   T_nest  {"architecture_draft":"D3","quality_score":93}                *)
(*   D1      a markdown draft with the Executive Summary and User Stories  *)
(*           sections only                                                 *)
(*   D2      a markdown document with every section and marker of the      *)
(*           quality checklist                                             *)
(*   D3      a markdown document that shows an API response in a fenced    *)
(*           json block, {"result":"R1"}, and has none of the checklist    *)
(*           sections                                                      *)
(*   R1      the plain text of that result field                           *)
(*   ""      the empty text                                                *)
(* Texts that only the extractors are applied to:                          *)
(*   T_zero      {"quality_score":0}                                       *)
(*   T_hundred   {"quality_score":100}                                     *)
(*   T_over      {"quality_score":150}                                     *)
(*   T_last      "quality_score": 95 in an example, then "quality_score": 40 *)
(*   T_lastover  "quality_score": 95, then "quality_score": 150            *)
(*   T_label     Quality Score: 88/100                                     *)
(*   T_labelover Quality Score: 250/100                                    *)
(*   T_mixed     "quality_score": 150 and Quality Score: 70/100            *)
(*   T_fullover  the document D2 followed by "quality_score": 150          *)
(* "undefined" stands for an absent candidate (JavaScript undefined).      *)

Undefined == "undefined"

Results == {"T_lowq", "T_highq", "T_high", "T_weak", "T_nest"}

Candidates == Results \cup {Undefined}

\* x || ""
OrEmpty(x) == IF x = Undefined THEN "" ELSE x

\* the numbers of the matches of /"quality_score"\s*:\s*(\d+)/g, in order
JsonScores(t) ==
    CASE t = "T_lowq" -> <<75>>
      [] t = "T_highq" -> <<95>>
      [] t = "T_high" -> <<92>>
      [] t = "T_weak" -> <<50>>
      [] t = "T_nest" -> <<93>>
      [] t = "T_zero" -> <<0>>
      [] t = "T_hundred" -> <<100>>
      [] t \in {"T_over", "T_mixed", "T_fullover"} -> <<150>>
      [] t = "T_last" -> <<95, 40>>
      [] t = "T_lastover" -> <<95, 150>>
      [] OTHER -> <<>>

\* the number of the first match of /Quality Score:\s*(\d+)\/100/i, if any
LabelScores(t) ==
    CASE t = "T_label" -> <<88>>
      [] t = "T_labelover" -> <<250>>
      [] t = "T_mixed" -> <<70>>
      [] OTHER -> <<>>

\* the six section headings of estimateScoreByContent found in the text
ScoreSections(t) ==
    CASE t = "D1" -> {"Executive Summary", "User Stories"}
      [] t \in {"D2", "T_fullover"} ->
            {"Executive Summary", "Business Goals", "User Stories",
             "Functional Requirements", "Technical Requirements",
             "Success Metrics"}
      [] OTHER -> {}

HasMetric(t) == t \in {"D2", "T_fullover"}

HasAcceptanceCriteria(t) == t \in {"D2", "T_fullover"}

Min(a, b) == IF a <= b THEN a ELSE b

Max(a, b) == IF a >= b THEN a ELSE b

\* a variant without the cap of 85
estimateScoreByContentUncapped(content) ==
    60 + 5 * Cardinality(ScoreSections(content))
       + (IF HasMetric(content) THEN 5 ELSE 0)
       + (IF HasAcceptanceCriteria(content) THEN 5 ELSE 0)

estimateScoreByContent(content) ==
    Min(60 + 5 * Cardinality(ScoreSections(content))
           + (IF HasMetric(content) THEN 5 ELSE 0)
           + (IF HasAcceptanceCriteria(content) THEN 5 ELSE 0), 85)

\* a variant that returns a reported score without the range check
scoreContentUnchecked(content) ==
    LET js == JsonScores(content)
        ls == LabelScores(content)
    IN  IF Len(js) > 0 THEN js[Len(js)]
        ELSE IF Len(ls) > 0 THEN ls[1]
        ELSE estimateScoreByContent(content)

scoreContent(content) ==
    LET js == JsonScores(content)
        ls == LabelScores(content)
    IN  IF Len(js) > 0 /\ js[Len(js)] >= 0 /\ js[Len(js)] <= 100 THEN js[Len(js)]
        ELSE IF Len(ls) > 0 /\ ls[1] >= 0 /\ ls[1] <= 100 THEN ls[1]
        ELSE estimateScoreByContent(content)

\* the first content field extractDraft finds in the text: in the text parsed
\* as JSON, else in a fenced json block of it, else by the quoted-field pattern
\* ("none": no field)
DraftField(t) ==
    CASE t \in {"T_lowq", "T_highq", "T_weak"} -> "D1"
      [] t = "T_high" -> "D2"
      [] t = "T_nest" -> "D3"
      [] t = "D3" -> "R1"
      [] OTHER -> "none"

extractDraft(content) ==
    IF DraftField(content) # "none" THEN DraftField(content) ELSE content

\* the checklist of analyzePRDQuality, in the order it is walked
Checklist == <<"Executive Summary", "Business Goals", "User Stories",
               "Functional Requirements", "Technical Requirements",
               "Success Metrics", "Scope & Priorities", "metric",
               "acceptance criteria", "dependencies", "error", "timeline">>

\* the checklist items found in the lower-cased text (a raw candidate contains
\* the text of the document it embeds)
ChecklistFound(t) ==
    CASE t = "D1" -> {"Executive Summary", "User Stories"}
      [] t = "D2" -> {Checklist[i] : i \in 1..Len(Checklist)}
      [] t = "T_nest" -> {}
      [] t \in Results -> IF DraftField(t) = "D2"
                          THEN {Checklist[i] : i \in 1..Len(Checklist)}
                          ELSE {"Executive Summary", "User Stories"}
      [] OTHER -> {}

RECURSIVE MissingFrom(_, _)
MissingFrom(i, found) ==
    IF i > Len(Checklist) THEN <<>>
    ELSE (IF Checklist[i] \in found THEN <<>> ELSE <<Checklist[i]>>)
         \o MissingFrom(i + 1, found)

\* one gap string per missing item; two generic strings when nothing is missing
analyzePRDQuality(content, currentScore) ==
    LET gaps == MissingFrom(1, ChecklistFound(content))
    IN  IF Len(gaps) = 0 THEN <<"deficit", "advice">> ELSE gaps

----------------------------------------------------------------------------
(* Clarification extractor *)

\* the questions array embedded in the text, ids defaulted to q{index}
extractQuestions(content) ==
    CASE content = "T_lowq" -> <<[id |-> "q1", question |-> "What is X?"]>>
      [] content = "T_highq" -> <<[id |-> "q1", question |-> "what is x?"]>>
      [] OTHER -> <<>>

extractGaps(content) ==
    CASE content = "T_lowq" -> <<"g1">>
      [] OTHER -> <<>>

toLowerCase(s) ==
    CASE s = "What is X?" -> "what is x?"
      [] s = "Why Y?" -> "why y?"
      [] OTHER -> s

RECURSIVE mergeInto(_, _)
mergeInto(merged, questions2) ==
    IF Len(questions2) = 0 THEN merged
    ELSE LET q == Head(questions2)
             existing == {toLowerCase(merged[i].question) : i \in 1..Len(merged)}
         IN  mergeInto(IF toLowerCase(q.question) \in existing THEN merged
                       ELSE Append(merged, q),
                       Tail(questions2))

\* a variant that compares the question texts as written
mergeQuestionsExact(questions1, questions2) ==
    questions1 \o SelectSeq(questions2, LAMBDA q :
                     \A i \in 1..Len(questions1) : questions1[i].question # q.question)

mergeQuestions(questions1, questions2) == mergeInto(questions1, questions2)

RECURSIVE unionInto(_, _)
unionInto(acc, rest) ==
    IF Len(rest) = 0 THEN acc
    ELSE unionInto(IF \E i \in 1..Len(acc) : acc[i] = Head(rest) THEN acc
                   ELSE Append(acc, Head(rest)),
                   Tail(rest))

\* Array.from(new Set([...a, ...b]))
mergeGaps(a, b) == unionInto(<<>>, a \o b)

----------------------------------------------------------------------------
(* Session records *)

SessionIds == {"s1", "s2"}

Objectives == {"Build X"}

generateTaskSlug(objective) == IF objective = "Build X" THEN "build-x" ELSE "task"

TaskNames == {"build-x", "build-x-1"}

\* an optional field is <<>> when undefined and <<v>> when it holds v
NoRef == <<>>

NoAnswers == <<>>

NoSession == <<>>

\* score?: number, undefined
NoScore == -1

EmptyMap == [q \in {} |-> ""]

\* the answers argument: an object, or a string the host passed instead
ObjectAnswers(entries) == [type |-> "object", text |-> "", entries |-> entries]

StringAnswers(text) == [type |-> "string", text |-> text, entries |-> EmptyMap]

\* the answers a caller passes to answer: {}, {"q1":" "}, {"q1":"yes"}, the
\* string '{"q1":"yes"}' and the string 'yes to all', which is not JSON
AnswerInputs ==
    {ObjectAnswers(EmptyMap), ObjectAnswers([q \in {"q1"} |-> " "]),
     ObjectAnswers([q \in {"q1"} |-> "yes"]),
     StringAnswers("{q1:yes}"), StringAnswers("yes to all")}

\* JSON.parse of an answers string; <<>> when it throws
JSONparse(text) ==
    IF text = "{q1:yes}" THEN <<[q \in {"q1"} |-> "yes"]>> ELSE <<>>

trim(v) == IF v = " " THEN "" ELSE v

\* a variant that creates every stage record in_progress
NewStageInProgress(status, iteration) ==
    [status |-> "in_progress", final_result_ref |-> NoRef, score |-> NoScore,
     approved |-> FALSE, iteration |-> iteration, draft |-> Undefined,
     questions |-> <<>>, answers |-> NoAnswers, gaps |-> <<>>]

NewStage(status, iteration) ==
    [status |-> status, final_result_ref |-> NoRef, score |-> NoScore,
     approved |-> FALSE, iteration |-> iteration, draft |-> Undefined,
     questions |-> <<>>, answers |-> NoAnswers, gaps |-> <<>>]

\* the path saveArtifact returns: .claude/specs/{task_name}/{artifact file}
ArtifactPath(task_name, stage) == <<task_name, ArtifactFile(stage)>>

ArtifactPaths == {ArtifactPath(t, st) : t \in TaskNames, st \in StageSet}

\* the reference saveContentToFile returns: a fresh file under
\* .bmad-task/temp/{session_id}/ holding the content
TempRef(sessionId, contentType, stage, content) ==
    [file_path |-> <<"temp", sessionId, stage, contentType>>, summary |-> content]

IsTempRef(ref) == ref.file_path[1] = "temp"

\* a file that was never written reads as "absent"
readContentFromFile(fs, ref) ==
    IF IsTempRef(ref) THEN ref.summary ELSE fs[ref.file_path]

\* session: the session projection a response carries, <<>> when it carries none
Response(kind, state, guidance, message) ==
    [kind |-> kind, state |-> state, improvement_guidance |-> guidance,
     error |-> message, session |-> <<>>]

NoResponse == Response("none", "none", <<>>, "")

errorResponse(message) == Response("error", "failed", <<>>, message)

\* a variant that also returns each stage's draft
getLightweightSessionWithDraft(session) ==
    [session_id |-> session.session_id,
     task_name |-> session.task_name,
     current_stage |-> session.current_stage,
     current_state |-> session.current_state,
     stages |-> [st \in DOMAIN session.stages |->
                   [status |-> session.stages[st].status,
                    score |-> session.stages[st].score,
                    approved |-> session.stages[st].approved,
                    iteration |-> session.stages[st].iteration,
                    has_final_result |-> session.stages[st].final_result_ref # NoRef,
                    questions_count |-> Len(session.stages[st].questions),
                    gaps_count |-> Len(session.stages[st].gaps),
                    draft |-> session.stages[st].draft]],
     artifacts |-> session.artifacts]

\* the projection status returns: per stage the status, score, approval and
\* iteration, a flag for the final reference and the two counts
getLightweightSession(session) ==
    [session_id |-> session.session_id,
     task_name |-> session.task_name,
     current_stage |-> session.current_stage,
     current_state |-> session.current_state,
     stages |-> [st \in DOMAIN session.stages |->
                   [status |-> session.stages[st].status,
                    score |-> session.stages[st].score,
                    approved |-> session.stages[st].approved,
                    iteration |-> session.stages[st].iteration,
                    has_final_result |-> session.stages[st].final_result_ref # NoRef,
                    questions_count |-> Len(session.stages[st].questions),
                    gaps_count |-> Len(session.stages[st].gaps)]],
     artifacts |-> session.artifacts]

\* an exception that leaves the handler
Threw == Response("threw", "none", <<>>, "")

\* what a handler leaves behind: the in-memory record, the record last written
\* by saveSession, the artifact files and the response
Outcome(s, d, f, r) == [mem |-> s, saved |-> <<d>>, fs |-> f, resp |-> r]

\* a variant that returns the in-memory record to clarifying
OutcomeUnsavedClarifying(s, f, r) ==
    [mem |-> [s EXCEPT !.current_state = "clarifying"], saved |-> <<>>,
     fs |-> f, resp |-> r]

\* a handler that returns without calling saveSession
OutcomeUnsaved(s, f, r) == [mem |-> s, saved |-> <<>>, fs |-> f, resp |-> r]

\* a variant that leaves the next stage's status as it was
AdvanceKeepingStatus(session, nextStage) ==
    [session EXCEPT !.current_stage = nextStage,
                    !.current_state = "generating"]

\* a variant that starts the next stage with an empty artifact list
AdvanceClearing(session, nextStage) ==
    [session EXCEPT !.current_stage = nextStage,
                    !.current_state = "generating",
                    !.stages[nextStage].status = "in_progress",
                    !.artifacts = <<>>]

Advance(session, nextStage) ==
    [session EXCEPT !.current_stage = nextStage,
                    !.current_state = "generating",
                    !.stages[nextStage].status = "in_progress"]

----------------------------------------------------------------------------
(* Handlers. Each takes the in-memory session record and the artifact      *)
(* files and gives the Outcome of the whole handler.                       *)

hasNonBlankAnswer(answers) ==
    /\ answers # NoAnswers
    /\ \E k \in DOMAIN answers[1] : answers[1][k] # ""

\* a variant that gives a tie to the second candidate
mergeWinnerStrict(claudeScore, claudeResult, codexScore, codexResult) ==
    IF claudeScore >= GateScore /\ codexScore >= GateScore
    THEN (IF claudeScore > codexScore THEN claudeResult ELSE codexResult)
    ELSE IF claudeScore >= GateScore THEN claudeResult
    ELSE IF codexScore >= GateScore THEN codexResult
    ELSE (IF claudeScore > codexScore THEN claudeResult ELSE codexResult)

\* the merge policy of handleDualEngineStage: the winning candidate
mergeWinner(claudeScore, claudeResult, codexScore, codexResult) ==
    IF claudeScore >= GateScore /\ codexScore >= GateScore
    THEN (IF claudeScore >= codexScore THEN claudeResult ELSE codexResult)
    ELSE IF claudeScore >= GateScore THEN claudeResult
    ELSE IF codexScore >= GateScore THEN codexResult
    ELSE (IF claudeScore >= codexScore THEN claudeResult ELSE codexResult)

mergeScore(claudeScore, codexScore) ==
    IF claudeScore >= GateScore /\ codexScore >= GateScore
    THEN (IF claudeScore >= codexScore THEN claudeScore ELSE codexScore)
    ELSE IF claudeScore >= GateScore THEN claudeScore
    ELSE IF codexScore >= GateScore THEN codexScore
    ELSE Max(claudeScore, codexScore)

\* a variant that reads the iteration counter without the default of 1
isInitialAnalysisStrict(stageData) ==
    /\ stageData.iteration = 1
    /\ stageData.answers = NoAnswers

\* iteration === 1 (undefined counts as 1) and no answers field
isInitialAnalysis(stageData) ==
    /\ (IF stageData.iteration = 0 THEN 1 ELSE stageData.iteration) = 1
    /\ stageData.answers = NoAnswers

hasBeenClarified(iteration, answers) ==
    iteration > 2 \/ hasNonBlankAnswer(answers)

\* readOk: whether the artifact file can be read relative to the directory the
\* server process runs in (it is written relative to the session's cwd)
handleDualEngineStage(session, fs, stage, claudeResult, codexResult, readOk) ==
    LET stageData == session.stages[stage]
        claudeScore == scoreContent(OrEmpty(claudeResult))
        codexScore == scoreContent(OrEmpty(codexResult))
        mergedQuestions == mergeQuestions(extractQuestions(OrEmpty(claudeResult)),
                                          extractQuestions(OrEmpty(codexResult)))
        mergedGaps == mergeGaps(extractGaps(OrEmpty(claudeResult)),
                                extractGaps(OrEmpty(codexResult)))
    IN
    IF isInitialAnalysis(stageData) /\ Len(mergedQuestions) > 0
    THEN LET draftSource == IF claudeScore >= codexScore THEN claudeResult ELSE codexResult
             s1 == [session EXCEPT
                      !.stages[stage].draft = extractDraft(OrEmpty(draftSource)),
                      !.stages[stage].questions = mergedQuestions,
                      !.stages[stage].gaps = mergedGaps,
                      !.stages[stage].score = Max(claudeScore, codexScore),
                      !.current_state = "clarifying"]
         IN  Outcome(s1, s1, fs, Response("ok", "clarifying", <<>>, ""))
    ELSE LET finalResult == mergeWinner(claudeScore, claudeResult, codexScore, codexResult)
             finalScore == mergeScore(claudeScore, codexScore)
             cleaned == extractDraft(OrEmpty(finalResult))
             artifactPath == ArtifactPath(session.task_name, stage)
             \* saveArtifact cleans the content once more before writing
             fs1 == [fs EXCEPT ![artifactPath] = extractDraft(cleaned)]
             s1 == [session EXCEPT
                      !.stages[stage].final_result_ref =
                          <<[file_path |-> artifactPath, summary |-> cleaned]>>,
                      !.stages[stage].score = finalScore]
         IN
         IF finalScore >= GateScore
         THEN LET s2 == [s1 EXCEPT !.current_state = "awaiting_confirmation"]
              IN  Outcome(s2, s2, fs1, Response("ok", "awaiting_confirmation", <<>>, ""))
         ELSE LET iteration == (IF stageData.iteration = 0 THEN 1 ELSE stageData.iteration) + 1
                  s2 == [s1 EXCEPT !.stages[stage].iteration = iteration]
              IN
              IF hasBeenClarified(iteration, stageData.answers)
              THEN \* the saved file is read relative to the process directory;
                   \* when that fails the winning candidate is analysed instead
                   LET savedContent == IF readOk THEN fs1[artifactPath]
                                       ELSE finalResult
                   IN  IF savedContent = Undefined
                       THEN Outcome(s2, s1, fs1, Threw)
                       ELSE LET s3 == [s2 EXCEPT !.current_state = "refining"]
                            IN  Outcome(s3, s3, fs1,
                                        Response("ok", "refining",
                                                 analyzePRDQuality(savedContent, finalScore), ""))
              ELSE IF Len(mergedQuestions) > 0
              THEN LET s3 == [s2 EXCEPT
                                !.stages[stage].draft = finalResult,
                                !.stages[stage].questions = mergedQuestions,
                                !.stages[stage].gaps = mergedGaps,
                                !.current_state = "clarifying"]
                   IN  \* the draft reference cannot be written for an absent winner
                       Outcome(s3, s3, fs1,
                               IF finalResult = Undefined THEN Threw
                               ELSE Response("ok", "clarifying", <<>>, ""))
              ELSE LET s3 == [s2 EXCEPT !.current_state = "refining"]
                   IN  Outcome(s3, s3, fs1, Response("ok", "refining", <<>>, ""))

handleSingleEngineStage(session, fs, stage, result) ==
    IF result = Undefined
    THEN \* saveContentToFile cannot write an absent result
         Outcome(session, session, fs, Threw)
    ELSE LET artifactPath == ArtifactPath(session.task_name, stage)
             fs1 == [fs EXCEPT ![artifactPath] = extractDraft(result)]
             s1 == [session EXCEPT
                      !.stages[stage].final_result_ref =
                          <<TempRef(session.session_id, "final_result", stage, result)>>,
                      !.artifacts = Append(@, artifactPath),
                      !.stages[stage].status = "completed"]
             nextStage == getNextStage(stage)
         IN
         IF stage = "sm"
         THEN LET s2 == [s1 EXCEPT !.current_state = "awaiting_approval"]
              IN  Outcome(s2, s2, fs1, Response("ok", "awaiting_approval", <<>>, ""))
         ELSE IF nextStage # "null"
         THEN LET s2 == Advance(s1, nextStage)
              IN  Outcome(s2, s2, fs1, Response("ok", "generating", <<>>, ""))
         ELSE LET s2 == [s1 EXCEPT !.current_state = "completed"]
              IN  Outcome(s2, s2, fs1, Response("ok", "completed", <<>>, ""))

submit(session, fs, stage, claude_result, codex_result, readOk) ==
    IF stage \in {"po", "architect"}
    THEN handleDualEngineStage(session, fs, stage, claude_result, codex_result, readOk)
    ELSE IF stage = "sm"
    THEN handleSingleEngineStage(session, fs, stage, claude_result)
    ELSE handleSingleEngineStage(session, fs, stage, codex_result)

\* a variant whose rejection also drops the current stage's final reference
approveDiscarding(session, fs, approved) ==
    LET currentStage == session.current_stage
        nextStage == getNextStage(currentStage)
    IN
    IF approved
    THEN LET s1 == [session EXCEPT !.stages[currentStage].approved = TRUE]
         IN  IF nextStage # "null"
             THEN LET s2 == Advance(s1, nextStage)
                  IN  Outcome(s2, s2, fs, Response("ok", "generating", <<>>, ""))
             ELSE LET s2 == [s1 EXCEPT !.current_state = "completed"]
                  IN  Outcome(s2, s2, fs, Response("ok", "completed", <<>>, ""))
    ELSE LET s1 == [session EXCEPT !.current_state = "refining",
                                   !.stages[currentStage].final_result_ref = NoRef]
         IN  Outcome(s1, s1, fs, Response("ok", "refining", <<>>, ""))

approve(session, fs, approved) ==
    LET currentStage == session.current_stage
        nextStage == getNextStage(currentStage)
    IN
    IF approved
    THEN LET s1 == [session EXCEPT !.stages[currentStage].approved = TRUE]
         IN  IF nextStage # "null"
             THEN LET s2 == Advance(s1, nextStage)
                  IN  Outcome(s2, s2, fs, Response("ok", "generating", <<>>, ""))
             ELSE LET s2 == [s1 EXCEPT !.current_state = "completed"]
                  IN  Outcome(s2, s2, fs, Response("ok", "completed", <<>>, ""))
    ELSE LET s1 == [session EXCEPT !.current_state = "refining"]
         IN  Outcome(s1, s1, fs, Response("ok", "refining", <<>>, ""))

\* a variant that keeps a string it cannot parse as the answer "raw"
normalizeAnswersKeepingText(answers) ==
    LET raw == IF answers.type = "string" THEN JSONparse(answers.text)
               ELSE <<answers.entries>>
    IN  IF raw = <<>> THEN [k \in {"raw"} |-> answers.text]
        ELSE [k \in DOMAIN raw[1] |-> trim(raw[1][k])]

\* a string is parsed; when parsing throws the map stays empty
normalizeAnswers(answers) ==
    LET raw == IF answers.type = "string" THEN JSONparse(answers.text)
               ELSE <<answers.entries>>
    IN  IF raw = <<>> THEN EmptyMap
        ELSE [k \in DOMAIN raw[1] |-> trim(raw[1][k])]

\* a variant that leaves a completed session completed
answerKeepingCompleted(session, fs, answers) ==
    LET currentStage == session.current_stage
        s1 == [session EXCEPT
                 !.stages[currentStage].answers = <<normalizeAnswers(answers)>>,
                 !.current_state = IF @ = "completed" THEN @ ELSE "refining"]
    IN  Outcome(s1, s1, fs, Response("ok", s1.current_state, <<>>, ""))

answer(session, fs, answers) ==
    LET currentStage == session.current_stage
        s1 == [session EXCEPT
                 !.stages[currentStage].answers = <<normalizeAnswers(answers)>>,
                 !.current_state = "refining"]
    IN  Outcome(s1, s1, fs, Response("ok", "refining", <<>>, ""))

\* a variant whose rejection also drops the pending final reference
confirmSaveDiscarding(session, fs, confirmed) ==
    LET currentStage == session.current_stage
        stageData == session.stages[currentStage]
    IN
    IF ~confirmed
    THEN LET s1 == [session EXCEPT !.current_state = "clarifying",
                                   !.stages[currentStage].final_result_ref = NoRef]
         IN  Outcome(s1, s1, fs, Response("ok", "clarifying", <<>>, ""))
    ELSE IF stageData.final_result_ref = NoRef
    THEN OutcomeUnsaved(session, fs, errorResponse("No final result to save"))
    ELSE LET finalResult == readContentFromFile(fs, stageData.final_result_ref[1])
             artifactPath == ArtifactPath(session.task_name, currentStage)
             fs1 == [fs EXCEPT ![artifactPath] = extractDraft(finalResult)]
             s1 == [session EXCEPT
                      !.artifacts = Append(@, artifactPath),
                      !.stages[currentStage].status = "completed"]
             nextStage == getNextStage(currentStage)
         IN  IF nextStage # "null"
             THEN LET s2 == Advance(s1, nextStage)
                  IN  Outcome(s2, s2, fs1, Response("ok", "generating", <<>>, ""))
             ELSE LET s2 == [s1 EXCEPT !.current_state = "completed"]
                  IN  Outcome(s2, s2, fs1, Response("ok", "completed", <<>>, ""))

confirmSave(session, fs, confirmed) ==
    LET currentStage == session.current_stage
        stageData == session.stages[currentStage]
    IN
    IF ~confirmed
    THEN LET s1 == [session EXCEPT !.current_state = "clarifying"]
         IN  Outcome(s1, s1, fs, Response("ok", "clarifying", <<>>, ""))
    ELSE IF stageData.final_result_ref = NoRef
    THEN OutcomeUnsaved(session, fs, errorResponse("No final result to save"))
    ELSE LET finalResult == readContentFromFile(fs, stageData.final_result_ref[1])
             artifactPath == ArtifactPath(session.task_name, currentStage)
             fs1 == [fs EXCEPT ![artifactPath] = extractDraft(finalResult)]
             s1 == [session EXCEPT
                      !.artifacts = Append(@, artifactPath),
                      !.stages[currentStage].status = "completed"]
             nextStage == getNextStage(currentStage)
         IN  IF nextStage # "null"
             THEN LET s2 == Advance(s1, nextStage)
                  IN  Outcome(s2, s2, fs1, Response("ok", "generating", <<>>, ""))
             ELSE LET s2 == [s1 EXCEPT !.current_state = "completed"]
                  IN  Outcome(s2, s2, fs1, Response("ok", "completed", <<>>, ""))

confirm(session, fs, confirmed) == confirmSave(session, fs, confirmed)

----------------------------------------------------------------------------
(* The server: the in-memory session table, the durable session records    *)
(* (.bmad-task/session-{id}.json), the artifact files and the last         *)
(* response.                                                               *)

\* the call handled last: its action, the session id and the stage it names
\* ("none" where the call names none), and the flag
\* (confirmed, approved) of a confirm or approve; for answer the flag tells that
\* the answers argument was a string that is not JSON
Call(action, sid, stage, flag) ==
    [action |-> action, sid |-> sid, stage |-> stage, flag |-> flag]

NoCall == Call("none", "none", "none", FALSE)

\* the extractor or merge function applied last outside a session, its input
\* and its result
Pure(fn, input, out) == [fn |-> fn, input |-> input, out |-> out]

NoPure == Pure("none", <<>>, <<>>)

Init ==
    /\ sessions = [sid \in SessionIds |-> NoSession]
    /\ disk = [sid \in SessionIds |-> NoSession]
    /\ files = [p \in ArtifactPaths |-> "absent"]
    /\ response = NoResponse
    /\ call = NoCall
    /\ ops = 0
    /\ pure = NoPure

\* a directory .claude/specs/{name} exists once an artifact was written into it
TaskDirExists(name) == \E st \in StageSet : files[ArtifactPath(name, st)] # "absent"

ensureUniqueTaskName(baseName) ==
    IF TaskDirExists(baseName) THEN "build-x-1" ELSE baseName

Apply(sid, o) ==
    /\ sessions' = [sessions EXCEPT ![sid] = <<o.mem>>]
    /\ disk' = IF o.saved = <<>> THEN disk ELSE [disk EXCEPT ![sid] = o.saved]
    /\ files' = o.fs
    /\ response' = o.resp

\* a variant that also empties the session table
NotFoundClearing ==
    /\ response' = errorResponse("Session not found")
    /\ sessions' = [sid \in SessionIds |-> NoSession]
    /\ UNCHANGED <<disk, files>>

NotFound ==
    /\ response' = errorResponse("Session not found")
    /\ UNCHANGED <<sessions, disk, files>>

Called(action, sid, stage, flag) ==
    /\ ops < MaxOps
    /\ ops' = ops + 1
    /\ call' = Call(action, sid, stage, flag)
    /\ pure' = pure

Start(sid, objective) ==
    /\ Called("start", sid, "none", FALSE)
    /\ sessions[sid] = NoSession
    /\ disk[sid] = NoSession
    /\ LET session ==
             [session_id |-> sid,
              task_name |-> ensureUniqueTaskName(generateTaskSlug(objective)),
              current_stage |-> "po",
              current_state |-> "generating",
              stages |-> [st \in StageSet |->
                            IF st = "po" THEN NewStage("in_progress", 1)
                            ELSE NewStage("pending", 0)],
              artifacts |-> <<>>]
       IN  Apply(sid, Outcome(session, session, files, Response("ok", "generating", <<>>, "")))

Submit(sid, stage, claude_result, codex_result, readOk) ==
    /\ Called("submit", sid, stage, FALSE)
    /\ IF sessions[sid] = NoSession THEN NotFound
       ELSE Apply(sid, submit(sessions[sid][1], files, stage, claude_result, codex_result, readOk))

Approve(sid, approved) ==
    /\ Called("approve", sid, "none", approved)
    /\ IF sessions[sid] = NoSession THEN NotFound
       ELSE Apply(sid, approve(sessions[sid][1], files, approved))

\* answer reloads a session missing from memory from
\* {process directory}/.bmad-task/session-{id}.json; readOk: that file is there
Answer(sid, answers, readOk) ==
    /\ Called("answer", sid, "none", answers.type = "string" /\ JSONparse(answers.text) = <<>>)
    /\ LET loaded == IF sessions[sid] # NoSession THEN sessions[sid]
                     ELSE IF disk[sid] # NoSession /\ readOk THEN disk[sid]
                     ELSE NoSession
       IN  IF loaded = NoSession THEN NotFound
           ELSE Apply(sid, answer(loaded[1], files, answers))

ConfirmSave(sid, confirmed) ==
    /\ Called("confirm_save", sid, "none", confirmed)
    /\ IF sessions[sid] = NoSession THEN NotFound
       ELSE Apply(sid, confirmSave(sessions[sid][1], files, confirmed))

Confirm(sid, confirmed) ==
    /\ Called("confirm", sid, "none", confirmed)
    /\ IF sessions[sid] = NoSession THEN NotFound
       ELSE Apply(sid, confirm(sessions[sid][1], files, confirmed))

Status(sid) ==
    /\ Called("status", sid, "none", FALSE)
    /\ IF sessions[sid] = NoSession THEN NotFound
       ELSE /\ response' = [Response("ok", sessions[sid][1].current_state, <<>>, "")
                               EXCEPT !.session = <<getLightweightSession(sessions[sid][1])>>]
            /\ UNCHANGED <<sessions, disk, files>>

\* the server process ends and a new one starts: the session table is empty
\* again, the session records and artifact files on disk remain
Restart ==
    /\ Called("restart", "none", "none", FALSE)
    /\ \E sid \in SessionIds : sessions[sid] # NoSession
    /\ sessions' = [sid \in SessionIds |-> NoSession]
    /\ response' = NoResponse
    /\ UNCHANGED <<disk, files>>

\* the candidate pairs a caller submits for a two-candidate stage: one
\* candidate, none, or both; D2 is a candidate that reports no score
DualInputs ==
    {<<c, Undefined>> : c \in Candidates} \cup {<<Undefined, x>> : x \in Candidates}
    \cup {<<"T_lowq", "T_highq">>, <<"T_high", "T_weak">>, <<"T_highq", "T_high">>,
          <<"D2", "T_weak">>}

\* for a single-candidate stage only the candidate of its engine is read
SingleInputs(stage) ==
    IF stage = "sm" THEN {<<c, Undefined>> : c \in Candidates}
    ELSE {<<Undefined, x>> : x \in Candidates}

SubmitInputs(stage) ==
    IF stage \in {"po", "architect"} THEN DualInputs ELSE SingleInputs(stage)

\* a run with one session: every call names s1
OneSession == {"s1"}

Next ==
    \/ \E sid \in OneSession, objective \in Objectives : Start(sid, objective)
    \/ \E sid \in OneSession, stage \in StageSet, readOk \in BOOLEAN :
          \E in \in SubmitInputs(stage) : Submit(sid, stage, in[1], in[2], readOk)
    \/ \E sid \in OneSession, approved \in BOOLEAN : Approve(sid, approved)
    \/ \E sid \in OneSession, answers \in AnswerInputs, readOk \in BOOLEAN :
          Answer(sid, answers, readOk)
    \/ \E sid \in OneSession, confirmed \in BOOLEAN : ConfirmSave(sid, confirmed)
    \/ \E sid \in OneSession, confirmed \in BOOLEAN : Confirm(sid, confirmed)
    \/ \E sid \in OneSession : Status(sid)
    \/ Restart

Spec == Init /\ [][Next]_vars

\* the candidates of a run with two sessions: one that passes the gate, one
\* that does not
TwoInputs(stage) ==
    IF stage \in {"po", "architect"}
    THEN {<<"T_high", Undefined>>, <<"T_weak", Undefined>>}
    ELSE IF stage = "sm" THEN {<<"T_high", Undefined>>}
    ELSE {<<Undefined, "T_high">>}

\* a run with two sessions in the same working directory, their calls
\* interleaved in any order
NextTwo ==
    \/ \E sid \in SessionIds, objective \in Objectives :
          ops < MaxOpsTwo /\ Start(sid, objective)
    \/ \E sid \in SessionIds, stage \in StageSet, readOk \in BOOLEAN :
          \E in \in TwoInputs(stage) :
             ops < MaxOpsTwo /\ Submit(sid, stage, in[1], in[2], readOk)
    \/ \E sid \in SessionIds, approved \in BOOLEAN :
          ops < MaxOpsTwo /\ Approve(sid, approved)
    \/ \E sid \in SessionIds, answers \in AnswerInputs, readOk \in BOOLEAN :
          ops < MaxOpsTwo /\ Answer(sid, answers, readOk)
    \/ \E sid \in SessionIds, confirmed \in BOOLEAN :
          ops < MaxOpsTwo /\ ConfirmSave(sid, confirmed)
    \/ \E sid \in SessionIds, confirmed \in BOOLEAN :
          ops < MaxOpsTwo /\ Confirm(sid, confirmed)
    \/ \E sid \in SessionIds : ops < MaxOpsTwo /\ Status(sid)
    \/ ops < MaxOpsTwo /\ Restart

SpecTwo == Init /\ [][NextTwo]_vars

----------------------------------------------------------------------------
(* A disciplined caller of one session: it submits for the current stage,  *)
(* answers when asked, confirms and approves, and from iteration           *)
(* MaxIterations of a gated stage on its candidates pass the gate.         *)

LiveCalled(action, sid, stage, flag) ==
    /\ call' = Call(action, sid, stage, flag)
    /\ UNCHANGED <<ops, pure>>

\* the candidates of the caller: for a gated stage one of claude that fails or
\* passes the gate, without or with questions; for the other stages the
\* candidate of the stage's engine
LiveInputs(session) ==
    LET stage == session.current_stage
    IN  IF stage \in {"po", "architect"}
        THEN {in \in {<<c, Undefined>> : c \in {"T_weak", "T_lowq", "T_highq", "T_high"}} :
                session.stages[stage].iteration >= MaxIterations
                => mergeScore(scoreContent(OrEmpty(in[1])),
                              scoreContent(OrEmpty(in[2]))) >= GateScore}
        ELSE IF stage = "sm" THEN {<<"T_high", Undefined>>}
        ELSE {<<Undefined, "T_high">>}

\* the answers of the caller: none, or one
LiveAnswers == {ObjectAnswers(EmptyMap), ObjectAnswers([q \in {"q1"} |-> "yes"])}

LiveStart(sid) ==
    /\ sessions[sid] = NoSession
    /\ disk[sid] = NoSession
    /\ call' = Call("start", sid, "none", FALSE)
    /\ UNCHANGED <<ops, pure>>
    /\ LET session ==
             [session_id |-> sid,
              task_name |-> ensureUniqueTaskName(generateTaskSlug("Build X")),
              current_stage |-> "po",
              current_state |-> "generating",
              stages |-> [st \in StageSet |->
                            IF st = "po" THEN NewStage("in_progress", 1)
                            ELSE NewStage("pending", 0)],
              artifacts |-> <<>>]
       IN  Apply(sid, Outcome(session, session, files, Response("ok", "generating", <<>>, "")))

LiveSubmit(sid) ==
    /\ sessions[sid] # NoSession
    /\ sessions[sid][1].current_state \in {"generating", "refining"}
    /\ \E in \in LiveInputs(sessions[sid][1]), readOk \in BOOLEAN :
          /\ LiveCalled("submit", sid, sessions[sid][1].current_stage, FALSE)
          /\ Apply(sid, submit(sessions[sid][1], files, sessions[sid][1].current_stage,
                               in[1], in[2], readOk))

LiveAnswer(sid) ==
    /\ sessions[sid] # NoSession
    /\ sessions[sid][1].current_state = "clarifying"
    /\ \E answers \in LiveAnswers :
          /\ LiveCalled("answer", sid, "none", FALSE)
          /\ Apply(sid, answer(sessions[sid][1], files, answers))

LiveConfirm(sid) ==
    /\ sessions[sid] # NoSession
    /\ sessions[sid][1].current_state = "awaiting_confirmation"
    /\ LiveCalled("confirm", sid, "none", TRUE)
    /\ Apply(sid, confirm(sessions[sid][1], files, TRUE))

LiveApprove(sid) ==
    /\ sessions[sid] # NoSession
    /\ sessions[sid][1].current_state = "awaiting_approval"
    /\ LiveCalled("approve", sid, "none", TRUE)
    /\ Apply(sid, approve(sessions[sid][1], files, TRUE))

NextLive ==
    \/ LiveStart("s1")
    \/ LiveSubmit("s1")
    \/ LiveAnswer("s1")
    \/ LiveConfirm("s1")
    \/ LiveApprove("s1")

SpecLive == Init /\ [][NextLive]_vars /\ WF_vars(NextLive)

----------------------------------------------------------------------------
(* The extractors and the merge functions on their own: an input is drawn, *)
(* then one function is applied to it.                                     *)

Scores == 0..100

\* the texts the extractors are applied to
Texts ==
    Results \cup {"", "D1", "D2", "D3", "R1", "T_zero", "T_hundred", "T_over",
                  "T_last", "T_lastover", "T_label", "T_labelover", "T_mixed",
                  "T_fullover"}

Question(id, question) == [id |-> id, question |-> question]

Questions ==
    {Question("q1", "What is X?"), Question("q1", "what is x?"),
     Question("q2", "Why Y?")}

\* the question lists of at most MaxQuestions questions
QuestionLists == UNION {[1..n -> Questions] : n \in 0..MaxQuestions}

\* an input is tagged with its kind: a text, a pair of scores, a pair of
\* candidates or a pair of question lists
PureInputs ==
    {<<"text", t>> : t \in Texts}
    \cup {<<"scores", a, b>> : a \in Scores, b \in Scores}
    \cup {<<"candidates", in[1], in[2]>> : in \in DualInputs}
    \cup {<<"questions", qa, qb>> : qa \in QuestionLists, qb \in QuestionLists}

InitPure ==
    /\ sessions = [sid \in SessionIds |-> NoSession]
    /\ disk = [sid \in SessionIds |-> NoSession]
    /\ files = [p \in ArtifactPaths |-> "absent"]
    /\ response = NoResponse
    /\ call = NoCall
    /\ ops = 0
    /\ pure \in {Pure("none", in, <<>>) : in \in PureInputs}

Applied(fn, out) ==
    /\ pure.fn = "none"
    /\ pure' = [pure EXCEPT !.fn = fn, !.out = out]
    /\ UNCHANGED <<sessions, disk, files, response, call, ops>>

ScoreContent ==
    /\ pure.input[1] = "text"
    /\ Applied("scoreContent", scoreContent(pure.input[2]))

\* the draft is cleaned when a stage result is merged and cleaned again when
\* the artifact is saved
ExtractDraft ==
    /\ pure.input[1] = "text"
    /\ Applied("extractDraft",
               [once |-> extractDraft(pure.input[2]),
                twice |-> extractDraft(extractDraft(pure.input[2]))])

\* the merge policy on two scores; the candidates are named by their engines
MergePolicy ==
    /\ pure.input[1] = "scores"
    /\ Applied("mergePolicy",
               [finalResult |-> mergeWinner(pure.input[2], "claude", pure.input[3], "codex"),
                finalScore |-> mergeScore(pure.input[2], pure.input[3])])

\* the merge policy on two candidates as a submit passes them
MergeCandidates ==
    /\ pure.input[1] = "candidates"
    /\ LET claudeResult == pure.input[2]
           codexResult == pure.input[3]
           claudeScore == scoreContent(OrEmpty(claudeResult))
           codexScore == scoreContent(OrEmpty(codexResult))
       IN  Applied("mergeCandidates",
                   [finalResult |-> mergeWinner(claudeScore, claudeResult,
                                                codexScore, codexResult),
                    finalScore |-> mergeScore(claudeScore, codexScore)])

MergeQuestions ==
    /\ pure.input[1] = "questions"
    /\ Applied("mergeQuestions", mergeQuestions(pure.input[2], pure.input[3]))

NextPure ==
    \/ ScoreContent
    \/ ExtractDraft
    \/ MergePolicy
    \/ MergeCandidates
    \/ MergeQuestions

SpecPure == InitPure /\ [][NextPure]_vars

----------------------------------------------------------------------------
(* Properties *)

Has(sid) == sessions[sid] # NoSession

S(sid) == sessions[sid][1]

Gated == {"po", "architect"}

ConfirmCalled(sid) == call'.action \in {"confirm", "confirm_save"} /\ call'.sid = sid

\* C1: quality gate. A gated stage (po, architect) is completed, or
\* current_stage has moved past it, only if the stage's recorded score is at
\* least 90; neither confirm nor approve advances a gated stage that scored
\* below 90.
C1_QualityGate ==
    \A sid \in SessionIds : Has(sid) =>
        \A g \in Gated :
            (/\ S(sid).stages[g].status = "completed"
             /\ IndexOf(S(sid).current_stage) > IndexOf(g))
            => S(sid).stages[g].score >= GateScore

\* C2: pipeline order. A stage is in_progress or completed only if every
\* earlier stage of the pipeline is completed.
C2_PipelineOrder ==
    \A sid \in SessionIds : Has(sid) =>
        \A i \in 1..Len(Stages), j \in 1..Len(Stages) :
            (i < j /\ S(sid).stages[Stages[j]].status \in {"in_progress", "completed"})
            => S(sid).stages[Stages[i]].status = "completed"

InProgress(sid) == {st \in StageSet : S(sid).stages[st].status = "in_progress"}

\* C3: no two stages are in_progress at the same time, and exactly one stage is
\* in_progress unless the session is completed, when the last stage is current.
C3_OneInProgress ==
    \A sid \in SessionIds : Has(sid) =>
        /\ Cardinality(InProgress(sid)) <= 1
        /\ S(sid).current_state # "completed" => Cardinality(InProgress(sid)) = 1
        /\ S(sid).current_state = "completed" => S(sid).current_stage = "qa"

\* C4: completed is terminal. Once current_state is completed, no submit,
\* answer, confirm or approve changes current_state or current_stage.
C4_CompletedIsTerminal ==
    [][\A sid \in SessionIds :
          (/\ Has(sid) /\ S(sid).current_state = "completed"
           /\ call'.action \in {"submit", "answer", "confirm", "confirm_save", "approve"}
           /\ call'.sid = sid)
          => /\ sessions'[sid][1].current_state = "completed"
             /\ sessions'[sid][1].current_stage = S(sid).current_stage]_vars

\* C5: completed is reached only through the last stage. Whenever current_state
\* is completed, qa and every earlier stage have status completed.
C5_CompletedMeansAllStagesDone ==
    \A sid \in SessionIds :
        (Has(sid) /\ S(sid).current_state = "completed")
        => \A st \in StageSet : S(sid).stages[st].status = "completed"

\* C6: confirm and confirm_save are valid only in awaiting_confirmation. Called
\* in any other state, with either value of confirmed, they leave current_state,
\* current_stage, every stage record and the artifact list unchanged.
C6_ConfirmOnlyWhenAwaiting ==
    [][\A sid \in SessionIds :
          (ConfirmCalled(sid) /\ Has(sid) /\ S(sid).current_state # "awaiting_confirmation")
          => sessions'[sid] = sessions[sid]]_vars

\* C7: a confirm with confirmed = true in awaiting_confirmation (a) appends
\* exactly one path, not yet in the list, to the artifact list and marks the
\* current stage completed, and (b) either moves current_stage one position
\* forward with state generating or, on the last stage, sets the state to
\* completed; never both and never neither.
C7_ConfirmTrueSavesAndAdvances ==
    [][\A sid \in SessionIds :
          (ConfirmCalled(sid) /\ call'.flag /\ Has(sid)
             /\ S(sid).current_state = "awaiting_confirmation")
          => LET cur == S(sid).current_stage
                 after == sessions'[sid][1]
             IN  /\ \E p \in ArtifactPaths :
                       /\ \A i \in 1..Len(S(sid).artifacts) : S(sid).artifacts[i] # p
                       /\ after.artifacts = Append(S(sid).artifacts, p)
                 /\ after.stages[cur].status = "completed"
                 /\ IF getNextStage(cur) # "null"
                    THEN /\ after.current_stage = getNextStage(cur)
                         /\ after.current_state = "generating"
                    ELSE /\ after.current_stage = cur
                         /\ after.current_state = "completed"]_vars

\* C8: a confirm with confirmed = false returns the session to clarifying and
\* leaves the current stage's questions, gaps, draft and final reference, the
\* current_stage, every stage status and the artifact list as they were: the
\* session record changes in current_state only, and no artifact file changes.
C8_ConfirmFalseKeepsEverything ==
    [][\A sid \in SessionIds :
          (ConfirmCalled(sid) /\ ~call'.flag /\ Has(sid))
          => /\ sessions'[sid] = <<[S(sid) EXCEPT !.current_state = "clarifying"]>>
             /\ files' = files
             /\ response'.state = "clarifying"]_vars

\* a rejected confirm on a stage that holds questions, a draft and a final
\* reference
C8_Witness ==
    \E sid \in SessionIds :
        /\ Has(sid)
        /\ call.action \in {"confirm", "confirm_save"} /\ call.sid = sid
        /\ ~call.flag
        /\ S(sid).current_state = "clarifying"
        /\ LET stageData == S(sid).stages[S(sid).current_stage]
           IN  /\ Len(stageData.questions) > 0
               /\ stageData.draft # Undefined
               /\ stageData.final_result_ref # NoRef

\* the stage record as the first-iteration rule reads it
FirstIteration(stageData) ==
    /\ (IF stageData.iteration = 0 THEN 1 ELSE stageData.iteration) = 1
    /\ stageData.answers = NoAnswers

MergedQuestionsOf(in) ==
    mergeQuestions(extractQuestions(OrEmpty(in[1])), extractQuestions(OrEmpty(in[2])))

MergedScoreOf(in) ==
    mergeScore(scoreContent(OrEmpty(in[1])), scoreContent(OrEmpty(in[2])))

\* the submitted pairs that carry at least one question
QuestionInputs == {in \in DualInputs : Len(MergedQuestionsOf(in)) > 0}

C10_ClarifiedButInsufficient ==
    [][\A sid \in SessionIds, g \in Gated, in \in DualInputs, readOk \in BOOLEAN :
          (/\ Has(sid)
           /\ call'.action = "submit" /\ call'.sid = sid /\ call'.stage = g
           /\ MergedScoreOf(in) < GateScore
           /\ LET stageData == S(sid).stages[g]
              IN  \/ hasNonBlankAnswer(stageData.answers)
                  \/ (IF stageData.iteration = 0 THEN 1 ELSE stageData.iteration) + 1 > 2
           /\ Submit(sid, g, in[1], in[2], readOk))
          => /\ sessions'[sid][1].current_state = "refining"
             /\ response'.state = "refining"
             /\ Len(response'.improvement_guidance) > 0]_vars

MergedWinnerOf(in) ==
    mergeWinner(scoreContent(OrEmpty(in[1])), in[1], scoreContent(OrEmpty(in[2])), in[2])

\* C11: for a gated stage, a submit outside the first-iteration-with-questions
\* rule whose merged score is at least 90 moves the session to
\* awaiting_confirmation, and the stage's final reference then points to content
\* equal to extractDraft of the winning candidate.
C11_GatePassedAwaitsConfirmation ==
    [][\A sid \in SessionIds, g \in Gated, in \in DualInputs, readOk \in BOOLEAN :
          (/\ Has(sid)
           /\ call'.action = "submit" /\ call'.sid = sid /\ call'.stage = g
           /\ ~(FirstIteration(S(sid).stages[g]) /\ Len(MergedQuestionsOf(in)) > 0)
           /\ MergedScoreOf(in) >= GateScore
           /\ Submit(sid, g, in[1], in[2], readOk))
          => LET after == sessions'[sid][1]
             IN  /\ after.current_state = "awaiting_confirmation"
                 /\ after.stages[g].final_result_ref # NoRef
                 /\ readContentFromFile(files', after.stages[g].final_result_ref[1])
                       = extractDraft(MergedWinnerOf(in))]_vars

\* the score a text reports itself: the last "quality_score" number if it lies
\* in 0..100, else the number of a "Quality Score: n/100" label in 0..100
ExplicitScore(t) ==
    LET js == JsonScores(t)
        ls == LabelScores(t)
    IN  IF Len(js) > 0 /\ js[Len(js)] >= 0 /\ js[Len(js)] <= 100 THEN <<js[Len(js)]>>
        ELSE IF Len(ls) > 0 /\ ls[1] >= 0 /\ ls[1] <= 100 THEN <<ls[1]>>
        ELSE <<>>

\* the submitted pairs in which no candidate reports a score of 90 or more
InputsWithoutPass ==
    {in \in DualInputs :
        ~\E i \in {1, 2} : /\ in[i] # Undefined
                           /\ ExplicitScore(in[i]) # <<>>
                           /\ ExplicitScore(in[i])[1] >= GateScore}

\* C12: a submit for a gated stage yields awaiting_confirmation only if a
\* supplied candidate carries an explicit score of at least 90; a candidate
\* scored by the fallback heuristic scores at most 85 and cannot pass the gate.
C12_OnlyExplicitScorePassesGate ==
    [][\A sid \in SessionIds, g \in Gated :
          (/\ Has(sid)
           /\ call'.action = "submit" /\ call'.sid = sid /\ call'.stage = g
           /\ response'.state = "awaiting_confirmation")
          => /\ \A in \in DualInputs, i \in {1, 2} :
                   (in[i] # Undefined /\ ExplicitScore(in[i]) = <<>>)
                   => scoreContent(in[i]) <= 85
             \* the step is not a submit of a pair without such a score
             /\ \A in \in InputsWithoutPass, readOk \in BOOLEAN :
                   ~Submit(sid, g, in[1], in[2], readOk)]_vars

\* a gated submit won by a candidate without a reported score, at the cap of the
\* fallback heuristic, that did not pass the gate
C12_Witness ==
    \E sid \in SessionIds :
        /\ Has(sid)
        /\ call.action = "submit" /\ call.sid = sid
        /\ call.stage \in Gated
        /\ S(sid).stages[call.stage].score = 85
        /\ S(sid).current_state = "refining"

\* C13: answer, called on an existing session in any state, stores the supplied
\* answers (each value trimmed) on the current stage's record and sets the
\* state to refining; current_stage, every stage status, the artifact list and
\* everything else in the session record are unchanged.
C13_AnswerAlwaysRefines ==
    [][\A sid \in SessionIds, answers \in AnswerInputs, readOk \in BOOLEAN :
          (/\ Has(sid)
           /\ call'.action = "answer" /\ call'.sid = sid
           /\ ~(/\ sessions'[sid] =
                     <<[S(sid) EXCEPT
                          !.stages[S(sid).current_stage].answers =
                              <<normalizeAnswers(answers)>>,
                          !.current_state = "refining"]>>
                /\ response'.state = "refining"
                /\ files' = files))
          \* no answer call has another outcome
          => ~Answer(sid, answers, readOk)]_vars

\* an answer given to a session that was completed: the answers are on the
\* current stage and the state is refining
C13_Witness ==
    \E sid \in SessionIds :
        /\ Has(sid)
        /\ call.action = "answer" /\ call.sid = sid
        /\ S(sid).current_state = "refining"
        /\ S(sid).stages["qa"].status = "completed"
        /\ hasNonBlankAnswer(S(sid).stages[S(sid).current_stage].answers)

\* C14: answer given answers in an unexpected shape (a string that is not valid
\* JSON) does not fail: it records an empty answer map on the current stage and
\* moves the session to refining.
C14_MalformedAnswersDegrade ==
    [][\A sid \in SessionIds, answers \in AnswerInputs, readOk \in BOOLEAN :
          (/\ Has(sid)
           /\ call'.action = "answer" /\ call'.sid = sid
           /\ answers.type = "string" /\ JSONparse(answers.text) = <<>>
           /\ ~(/\ response'.kind = "ok"
                /\ sessions'[sid][1].stages[S(sid).current_stage].answers = <<EmptyMap>>
                /\ sessions'[sid][1].current_state = "refining"))
          \* no answer call with such a string has another outcome
          => ~Answer(sid, answers, readOk)]_vars

\* an answer with a string that is not JSON: it succeeded and recorded an
\* empty map, in memory and in the durable record
C14_Witness ==
    \E sid \in SessionIds :
        /\ Has(sid)
        /\ call.action = "answer" /\ call.sid = sid
        /\ call.flag
        /\ response.kind = "ok"
        /\ S(sid).current_state = "refining"
        /\ S(sid).stages[S(sid).current_stage].answers = <<EmptyMap>>
        /\ disk[sid] # NoSession
        /\ disk[sid][1].stages[S(sid).current_stage].answers = <<EmptyMap>>

SessionCalls == {"submit", "answer", "confirm", "confirm_save", "approve", "status"}

\* C15: submit, answer, confirm, approve and status, called with a session id
\* that has neither an in-memory nor a durable record, return the failure
\* 'Session not found' and change no in-memory session, no durable record and
\* no file.
C15_UnknownSessionFails ==
    [][\A sid \in SessionIds :
          (/\ call'.sid = sid /\ call'.action \in SessionCalls
           /\ ~Has(sid) /\ disk[sid] = NoSession)
          => /\ response' = errorResponse("Session not found")
             /\ UNCHANGED <<sessions, disk, files>>]_vars

\* a call that named an unknown session while another session was open
C15_Witness ==
    \E sid \in SessionIds, other \in SessionIds :
        /\ call.sid = sid /\ call.action \in SessionCalls
        /\ ~Has(sid) /\ disk[sid] = NoSession
        /\ response = errorResponse("Session not found")
        /\ Has(other) /\ disk[other] # NoSession

\* C16: sessions survive a restart. After the session table is lost, submit,
\* answer, confirm, approve and status, called with the id of a session that has
\* a durable record, reload the session from that record instead of reporting
\* 'Session not found'.
C16_SessionsSurviveRestart ==
    [][\A sid \in SessionIds :
          (/\ call'.sid = sid /\ call'.action \in SessionCalls
           /\ ~Has(sid) /\ disk[sid] # NoSession)
          => /\ response'.error # "Session not found"
             /\ sessions'[sid] # NoSession]_vars

\* C17: the artifact list is append-only. Over every operation on a session the
\* list before is a prefix of the list after, and every path appended names an
\* artifact file the operation has written, in a call that succeeded.
C17_ArtifactsAppendOnly ==
    [][\A sid \in SessionIds :
          (Has(sid) /\ sessions'[sid] # NoSession)
          => LET before == S(sid).artifacts
                 after == sessions'[sid][1].artifacts
             IN  /\ Len(before) <= Len(after)
                 /\ SubSeq(after, 1, Len(before)) = before
                 /\ \A i \in (Len(before) + 1)..Len(after) :
                       /\ files'[after[i]] # "absent"
                       /\ response'.kind = "ok"]_vars

\* a session whose list has grown twice
C17_Witness ==
    \E sid \in SessionIds :
        /\ Has(sid)
        /\ Len(S(sid).artifacts) >= 2
        /\ \A i \in 1..Len(S(sid).artifacts) : files[S(sid).artifacts[i]] # "absent"

\* C18 as stated: a confirm with confirmed = true on the stage before the last
\* one (review), which holds a final reference, yields state completed with an
\* artifact list of six entries.
C18_ConfirmBeforeLastCompletes ==
    [][\A sid \in SessionIds :
          (/\ ConfirmCalled(sid) /\ call'.flag /\ Has(sid)
           /\ S(sid).current_stage = "review"
           /\ S(sid).stages["review"].final_result_ref # NoRef)
          => /\ sessions'[sid][1].current_state = "completed"
             /\ Len(sessions'[sid][1].artifacts) = Len(Stages)]_vars

\* C18, amended: a confirm with confirmed = true completes the session only on
\* the last stage (qa): there it sets the state to completed, leaves
\* current_stage on qa and appends the qa artifact path. On review it moves
\* current_stage to qa with state generating. With a final reference on the
\* current stage, in both cases.
C18_ConfirmOnLastCompletes ==
    [][\A sid \in SessionIds :
          (/\ ConfirmCalled(sid) /\ call'.flag /\ Has(sid)
           /\ S(sid).current_stage \in {"review", "qa"}
           /\ S(sid).stages[S(sid).current_stage].final_result_ref # NoRef)
          => LET cur == S(sid).current_stage
                 after == sessions'[sid][1]
             IN  /\ after.stages[cur].status = "completed"
                 /\ after.artifacts =
                       Append(S(sid).artifacts, ArtifactPath(S(sid).task_name, cur))
                 /\ after.current_stage = "qa"
                 /\ after.current_state = IF cur = "qa" THEN "completed" ELSE "generating"
                 /\ response'.state = after.current_state]_vars

\* a confirm on the last stage that completed the session
C18_Witness ==
    \E sid \in SessionIds :
        /\ Has(sid)
        /\ call.action \in {"confirm", "confirm_save"} /\ call.sid = sid
        /\ call.flag
        /\ response.kind = "ok"
        /\ S(sid).current_stage = "qa"
        /\ S(sid).current_state = "completed"
        /\ S(sid).stages["qa"].status = "completed"
        /\ Len(S(sid).artifacts) < Len(Stages)

\* C19: task names are collision-free. Any two sessions started in the same
\* working directory, also from the same objective and in any interleaving with
\* the other operations, have distinct task names.
C19_TaskNamesDistinct ==
    \A a \in SessionIds, b \in SessionIds :
        (a # b /\ disk[a] # NoSession /\ disk[b] # NoSession)
        => disk[a][1].task_name # disk[b][1].task_name

\* C20: start creates a new session under an id no session has had, also when
\* called again with the same inputs, with a record for each of the six stages,
\* current_stage po, state generating, po in_progress at iteration 1, every
\* other stage pending, and an empty artifact list; the record is on disk when
\* start returns, and no other session is changed.
C20_StartCreatesFreshSession ==
    [][\A sid \in SessionIds :
          (call'.action = "start" /\ call'.sid = sid)
          => /\ ~Has(sid) /\ disk[sid] = NoSession
             /\ sessions'[sid] # NoSession
             /\ LET new == sessions'[sid][1]
                IN  /\ new.session_id = sid
                    /\ DOMAIN new.stages = StageSet
                    /\ new.current_stage = "po"
                    /\ new.current_state = "generating"
                    /\ new.stages["po"].status = "in_progress"
                    /\ new.stages["po"].iteration = 1
                    /\ \A st \in StageSet \ {"po"} : new.stages[st].status = "pending"
                    /\ new.artifacts = <<>>
             /\ disk'[sid] = sessions'[sid]
             /\ \A other \in SessionIds \ {sid} :
                   /\ sessions'[other] = sessions[other]
                   /\ disk'[other] = disk[other]
             /\ files' = files]_vars

\* a second start with the same objective, beside a session that has moved on
C20_Witness ==
    \E sid \in SessionIds, other \in SessionIds :
        /\ sid # other
        /\ call.action = "start" /\ call.sid = sid
        /\ Has(sid) /\ disk[sid] = sessions[sid]
        /\ S(sid).current_state = "generating"
        /\ Has(other) /\ S(other).current_state # "generating"

\* the fields of a stage in the projection of status
ProjectedStageFields ==
    {"status", "score", "approved", "iteration", "has_final_result",
     "questions_count", "gaps_count"}

C22_ScoreInRange ==
    pure.fn = "scoreContent"
    => /\ pure.out \in 0..100
       /\ ExplicitScore(pure.input[2]) = <<>> => pure.out \in 60..85

\* a text whose last reported score is out of range although an earlier one is
\* not: it is scored by the heuristic
C22_Witness ==
    /\ pure.fn = "scoreContent"
    /\ pure.input[2] = "T_lastover"
    /\ pure.out = 60

\* C23: the decision table of the merge policy, for all score pairs in 0..100.
\* Both at least 90: the higher wins, a tie goes to claude. Exactly one at least
\* 90: that one wins. Neither: the higher wins, a tie goes to claude, and the
\* final score is below 90. The final score is the same with the candidates
\* swapped.
C23_MergePolicyTable ==
    pure.fn = "mergePolicy"
    => LET a == pure.input[2]
           b == pure.input[3]
           higher == IF a >= b THEN "claude" ELSE "codex"
       IN  /\ (a >= 90 /\ b >= 90) => pure.out.finalResult = higher
           /\ (a >= 90 /\ b < 90) => pure.out.finalResult = "claude"
           /\ (a < 90 /\ b >= 90) => pure.out.finalResult = "codex"
           /\ (a < 90 /\ b < 90) => /\ pure.out.finalResult = higher
                                    /\ pure.out.finalScore < 90
           /\ pure.out.finalScore = (IF pure.out.finalResult = "claude" THEN a ELSE b)
           /\ pure.out.finalScore = mergeScore(b, a)

\* two candidates with the same passing score: claude wins
C23_Witness ==
    /\ pure.fn = "mergePolicy"
    /\ pure.input[2] = 95 /\ pure.input[3] = 95
    /\ pure.out.finalResult = "claude"
    /\ pure.out.finalScore = 95

\* C24: with only one candidate supplied to a gated stage, the winner is the
\* supplied candidate and the final score is its score, whatever that score is.
C24_OnlySuppliedCandidateWins ==
    (/\ pure.fn = "mergeCandidates"
     /\ (pure.input[2] = Undefined) # (pure.input[3] = Undefined))
    => LET supplied == IF pure.input[2] # Undefined THEN pure.input[2] ELSE pure.input[3]
       IN  /\ pure.out.finalResult = supplied
           /\ pure.out.finalScore = scoreContent(supplied)

\* the case folds of the question texts of a list
Folded(questions) == {toLowerCase(questions[i].question) : i \in 1..Len(questions)}

\* the positions of the second list whose question is new: its case-folded text
\* is that of no question of the first list and of no earlier question of the
\* second
NewPositions(qa, qb) ==
    {j \in 1..Len(qb) :
        /\ toLowerCase(qb[j].question) \notin Folded(qa)
        /\ \A k \in 1..(j - 1) :
              toLowerCase(qb[k].question) # toLowerCase(qb[j].question)}

\* C25: question merge. The merged list is the first list verbatim followed, in
\* order, by exactly the questions of the second list whose case-folded text is
\* that of no question already merged; two single-question lists whose texts
\* differ in letter case only merge to one question.
C25_QuestionMerge ==
    pure.fn = "mergeQuestions"
    => LET qa == pure.input[2]
           qb == pure.input[3]
           new == NewPositions(qa, qb)
       IN  /\ Len(pure.out) = Len(qa) + Cardinality(new)
           /\ SubSeq(pure.out, 1, Len(qa)) = qa
           /\ \A j \in new :
                 pure.out[Len(qa) + Cardinality({k \in new : k <= j})] = qb[j]

\* 'What is X?' merged with 'what is x?': one question, the first
C25_Witness ==
    /\ pure.fn = "mergeQuestions"
    /\ pure.input[2] = <<Question("q1", "What is X?")>>
    /\ pure.input[3] = <<Question("q1", "what is x?")>>
    /\ pure.out = <<Question("q1", "What is X?")>>

\* C26: extractDraft is idempotent: cleaning a cleaned draft again, as the save
\* path does, gives the cleaned draft.
C26_ExtractDraftIdempotent ==
    pure.fn = "extractDraft" => pure.out.twice = pure.out.once

\* C27: in every reachable state and for every stage, the stage record has a
\* final_result reference if and only if the stage's status is completed or the
\* session is in awaiting_confirmation or awaiting_approval for that stage.
C27_FinalRefIffCompletedOrAwaiting ==
    \A sid \in SessionIds : Has(sid) =>
        \A st \in StageSet :
            (S(sid).stages[st].final_result_ref # NoRef)
            <=> \/ S(sid).stages[st].status = "completed"
                \/ /\ S(sid).current_stage = st
                   /\ S(sid).current_state \in {"awaiting_confirmation", "awaiting_approval"}

\* C28: a content reference is immutable once created. After a reference has
\* been attached to a stage record, no later operation changes the content of
\* the file it points to.
C28_ReferencesImmutable ==
    [][\A sid \in SessionIds : Has(sid) =>
          \A st \in StageSet :
              S(sid).stages[st].final_result_ref # NoRef
              => readContentFromFile(files', S(sid).stages[st].final_result_ref[1])
                    = readContentFromFile(files, S(sid).stages[st].final_result_ref[1])]_vars

\* C29: no operation partially mutates durable state before failing. Whenever
\* submit, answer, confirm or approve ends in a failure, a structured error or
\* an exception, the durable session records and the artifact files are what
\* they were before the call.
C29_FailureLeavesDurableState ==
    [][(/\ call'.action \in {"submit", "answer", "confirm", "confirm_save", "approve"}
        /\ response'.kind \in {"error", "threw"})
       => /\ disk' = disk
          /\ files' = files]_vars

\* the artifact files a session record names: the paths of its artifact list
\* and of the final references that point into the artifact directory
OwnedFiles(session) ==
    {session.artifacts[i] : i \in 1..Len(session.artifacts)}
    \cup {session.stages[st].final_result_ref[1].file_path :
            st \in {x \in StageSet :
                      /\ session.stages[x].final_result_ref # NoRef
                      /\ ~IsTempRef(session.stages[x].final_result_ref[1])}}

\* C30: distinct sessions are independent. In any interleaving of the
\* operations of two sessions in one working directory, an operation on one
\* session changes neither the other session's in-memory record, nor its
\* durable record, nor the files its record refers to.
C30_SessionsIndependent ==
    [][\A sid \in SessionIds, other \in SessionIds :
          (/\ other # sid
           /\ call'.sid = sid
           /\ call'.action \in SessionCalls \cup {"start"})
          => /\ sessions'[other] = sessions[other]
             /\ disk'[other] = disk[other]
             /\ disk[other] # NoSession
                => \A p \in OwnedFiles(disk[other][1]) : files'[p] = files[p]]_vars

\* C31: in every reachable state, current_state = awaiting_approval implies
\* that current_stage is sm, and current_state = awaiting_confirmation implies
\* that current_stage is po or architect.
C31_AwaitingStatesMatchStage ==
    \A sid \in SessionIds : Has(sid) =>
        /\ S(sid).current_state = "awaiting_approval" => S(sid).current_stage = "sm"
        /\ S(sid).current_state = "awaiting_confirmation" => S(sid).current_stage \in Gated

SingleStages == StageSet \ Gated

\* what a submit of result for the single-candidate stage st leaves behind
SingleSubmitDone(sid, st, result) ==
    LET before == S(sid)
        after == sessions'[sid][1]
        path == ArtifactPath(before.task_name, st)
    IN  /\ after.stages[st].final_result_ref # NoRef
        /\ readContentFromFile(files', after.stages[st].final_result_ref[1]) = result
        /\ files'[path] = extractDraft(result)
        /\ after.artifacts = Append(before.artifacts, path)
        /\ after.stages[st].score = before.stages[st].score
        /\ after.stages[st].status = "completed"
        /\ IF st = "sm"
           THEN /\ after.current_state = "awaiting_approval"
                /\ after.current_stage = before.current_stage
           ELSE IF st = "qa"
           THEN /\ after.current_state = "completed"
                /\ after.current_stage = before.current_stage
           ELSE /\ after.current_stage = Stages[IndexOf(st) + 1]
                /\ after.stages[after.current_stage].status = "in_progress"
                /\ after.current_state = "generating"
        /\ response'.state = after.current_state

\* C32: a submit of a candidate for a single-candidate stage saves the result
\* as the stage's final reference and artifact without scoring; for sm it then
\* enters awaiting_approval with current_stage unchanged; for dev and review it
\* marks the stage completed, sets the next stage in_progress, makes it
\* current_stage and sets the state to generating; for qa it marks the stage
\* completed and sets the session state to completed.
C32_SingleCandidateSubmit ==
    [][\A sid \in SessionIds, st \in SingleStages :
          (/\ Has(sid)
           /\ call'.action = "submit" /\ call'.sid = sid /\ call'.stage = st)
          => \A in \in SingleInputs(st), readOk \in BOOLEAN :
                LET result == IF st = "sm" THEN in[1] ELSE in[2]
                IN  (result # Undefined /\ ~SingleSubmitDone(sid, st, result))
                    => ~Submit(sid, st, in[1], in[2], readOk)]_vars

\* a submit for dev that completed dev and made review the current stage
C32_Witness ==
    \E sid \in SessionIds :
        /\ Has(sid)
        /\ call.action = "submit" /\ call.sid = sid /\ call.stage = "dev"
        /\ response.kind = "ok"
        /\ S(sid).stages["dev"].status = "completed"
        /\ S(sid).stages["dev"].score = NoScore
        /\ S(sid).current_stage = "review"
        /\ S(sid).stages["review"].status = "in_progress"
        /\ S(sid).current_state = "generating"

\* C33: approve with approved = true auto-advances like the single-candidate
\* path: afterwards the approved stage has status completed and its approved
\* flag set, and either current_stage has moved forward by exactly one position
\* with the new stage in_progress and state generating or, when the approved
\* stage is the last one, the session state is completed.
C33_ApproveTrueAdvances ==
    [][\A sid \in SessionIds :
          (/\ Has(sid)
           /\ call'.action = "approve" /\ call'.sid = sid /\ call'.flag)
          => LET cur == S(sid).current_stage
                 after == sessions'[sid][1]
             IN  /\ after.stages[cur].status = "completed"
                 /\ after.stages[cur].approved
                 /\ IF IndexOf(cur) < Len(Stages)
                    THEN /\ after.current_stage = Stages[IndexOf(cur) + 1]
                         /\ after.stages[after.current_stage].status = "in_progress"
                         /\ after.current_state = "generating"
                    ELSE after.current_state = "completed"]_vars

\* C34: approve with approved = false sets the session state to refining and
\* changes nothing else: current_stage, every stage's status, score,
\* references, questions and answers, and the artifact list are unchanged, and
\* so are the artifact files.
C34_ApproveFalseOnlyRefines ==
    [][\A sid \in SessionIds :
          (/\ Has(sid)
           /\ call'.action = "approve" /\ call'.sid = sid /\ ~call'.flag)
          => /\ sessions'[sid] = <<[S(sid) EXCEPT !.current_state = "refining"]>>
             /\ files' = files
             /\ response'.state = "refining"]_vars

\* a rejected sprint plan: sm keeps its status, its final reference and its
\* artifact
C34_Witness ==
    \E sid \in SessionIds :
        /\ Has(sid)
        /\ call.action = "approve" /\ call.sid = sid /\ ~call.flag
        /\ S(sid).current_state = "refining"
        /\ S(sid).stages["sm"].status = "completed"
        /\ S(sid).stages["sm"].final_result_ref # NoRef
        /\ Len(S(sid).artifacts) > 0

\* C35: confirm with confirmed = true while the current stage has no final
\* reference returns the structured failure 'No final result to save' and
\* leaves the session state, the stage records, the artifact list, the durable
\* record and the files unchanged.
C35_MissingFinalResult ==
    [][\A sid \in SessionIds :
          (/\ ConfirmCalled(sid) /\ call'.flag /\ Has(sid)
           /\ S(sid).stages[S(sid).current_stage].final_result_ref = NoRef)
          => /\ response' = errorResponse("No final result to save")
             /\ UNCHANGED <<sessions, disk, files>>]_vars

\* a confirm that found no final reference on the current stage
C35_Witness ==
    \E sid \in SessionIds :
        /\ Has(sid)
        /\ call.action \in {"confirm", "confirm_save"} /\ call.sid = sid /\ call.flag
        /\ response = errorResponse("No final result to save")
        /\ S(sid).stages[S(sid).current_stage].final_result_ref = NoRef
        /\ S(sid).current_state = "generating"

\* C36: while a session is in state clarifying, only answer moves it to another
\* state: a submit re-enters clarifying, and confirm, approve and status leave
\* the session in clarifying.
C36_ClarifyingExitsByAnswerOnly ==
    [][\A sid \in SessionIds :
          (/\ Has(sid) /\ S(sid).current_state = "clarifying"
           /\ call'.sid = sid
           /\ call'.action \in {"submit", "confirm", "confirm_save", "approve", "status"})
          => sessions'[sid][1].current_state = "clarifying"]_vars

\* the operations that change a session
ChangingCalls == {"start", "submit", "answer", "confirm", "confirm_save", "approve"}

\* C37: after every operation that returns to the caller, with a success or a
\* structured failure, the durable session record equals the in-memory session
\* record.
C37_DurableEqualsMemory ==
    [][\A sid \in SessionIds :
          (/\ call'.sid = sid /\ call'.action \in ChangingCalls
           /\ response'.kind \in {"ok", "error"}
           /\ sessions'[sid] # NoSession)
          => disk'[sid] = sessions'[sid]]_vars

\* C38: current_stage never moves to an earlier pipeline position: over every
\* operation, submits naming any stage included, the pipeline index of
\* current_stage does not decrease and grows by at most one.
C38_StageIndexMonotonic ==
    [][\A sid \in SessionIds :
          (Has(sid) /\ sessions'[sid] # NoSession)
          => LET before == IndexOf(S(sid).current_stage)
                 after == IndexOf(sessions'[sid][1].current_stage)
             IN  before <= after /\ after <= before + 1]_vars

AllStagesCompleted(sid) ==
    /\ Has(sid)
    /\ S(sid).current_state = "completed"
    /\ \A st \in StageSet : S(sid).stages[st].status = "completed"

\* C39: liveness under a disciplined caller. If the caller, under weak
\* fairness, always submits for the session's current stage, answers whenever
\* the state is clarifying, confirms with true whenever it is
\* awaiting_confirmation, approves with true whenever it is awaiting_approval,
\* and its candidates for a gated stage eventually score 90 or more, the session
\* eventually reaches state completed with all six stages completed.
C39_DisciplinedCallerCompletes == <>AllStagesCompleted("s1")

\* the completed session, with one artifact per stage
C39_Witness ==
    /\ AllStagesCompleted("s1")
    /\ Len(S("s1").artifacts) = Len(Stages)
    /\ call.action = "submit" /\ call.stage = "qa"

\* C40: the artifact list never contains the same path twice: each stage
\* contributes at most one entry over the life of a session, also when a
\* stage's result is rejected and the stage is submitted again.
C40_ArtifactsDistinct ==
    \A sid \in SessionIds : Has(sid) =>
        \A i \in 1..Len(S(sid).artifacts), j \in 1..Len(S(sid).artifacts) :
            i # j => S(sid).artifacts[i] # S(sid).artifacts[j]

====
